---- MODULE Spec2Model ----
(***************************************************************************)
(* Multi-tenant CRM back office (crm_accounting): the registry of client   *)
(* organizations, the per-tenant stores and the request handlers of        *)
(* app/routes.  A handler is an operator from the system's state and the   *)
(* request to the state it leaves and the response it sends; one action    *)
(* per handler applies it (one request, served as one atomic step).        *)
(***************************************************************************)
EXTENDS Integers, Sequences, FiniteSets, Bags, TLC

VARIABLES
    client_organizations,  \* registry: tenant id -> ClientOrganization row
    client_users,          \* registry: the ClientUser rows of the main database
    next_org_id,           \* registry: the id the next ClientOrganization row gets
    stores,                \* database identifier -> the tenant store of that name
    open_sessions,         \* bag of database identifiers with a tenant session open
    transactions           \* bag of the requests between their queries and their commit

vars == <<client_organizations, client_users, next_org_id, stores, open_sessions, transactions>>

\* the state the handlers read and write
State ==
    [client_organizations |-> client_organizations,
     client_users         |-> client_users,
     next_org_id          |-> next_org_id,
     stores               |-> stores,
     open_sessions        |-> open_sessions]

----------------------------------------------------------------------------
(* Bounds of the model *)

\* tenant registrations ever made (ids 1..MaxTenants)
MaxTenants == 2
\* tenant databases and the rows they hold, all together
MaxSize == 5
\* the largest id a table of a tenant store hands out
MaxId == 2
\* requests of one tenant in flight at the same time
MaxRequests == 2

----------------------------------------------------------------------------
(* Values *)

\* org.database_name when no database was provisioned (None or '')
NoDb == <<>>

\* a slip: the id is left out of the derived name
DbNameShared(id) == <<"client", 0>>

\* f"client_{client_org.id}"
DbName(id) == <<"client", id>>

\* the tenant ids requests name: some of them are never registered
TenantIds == 1..(MaxTenants + 2)

\* an empty schema with all per-tenant tables
EmptyStore ==
    [clients               |-> {},
     digital_signatures    |-> {},
     report_templates      |-> {},
     report_periods        |-> {},
     client_reports        |-> {},
     client_report_history |-> {},
     organizations         |-> {}]

Tables == DOMAIN EmptyStore

RECURSIVE SumOver(_, _)
SumOver(S, f) ==
    IF S = {} THEN 0
    ELSE LET x == CHOOSE y \in S : TRUE IN f[x] + SumOver(S \ {x}, f)

RowCount(store) ==
    Cardinality(store.clients) + Cardinality(store.digital_signatures)
    + Cardinality(store.report_templates) + Cardinality(store.report_periods)
    + Cardinality(store.client_reports) + Cardinality(store.client_report_history)
    + Cardinality(store.organizations)

TotalRows(dbs) == SumOver(DOMAIN dbs, [d \in DOMAIN dbs |-> RowCount(dbs[d])])

SetMax(S) == CHOOSE x \in S : \A y \in S : y <= x
SetMin(S) == CHOOSE x \in S : \A y \in S : x <= y

\* Column(Integer, primary_key=True): the id a new row of a table gets
NextId(rows) == IF rows = {} THEN 1 ELSE SetMax({r.id : r \in rows}) + 1

\* the row ids requests name: one of them is never handed out
RowIds == 1..(MaxId + 1)

\* the stores stay within the bounds of the model
WithinBounds(dbs) ==
    /\ Cardinality(DOMAIN dbs) + TotalRows(dbs) <= MaxSize
    /\ \A d \in DOMAIN dbs : \A t \in Tables : \A r \in dbs[d][t] : r.id <= MaxId

----------------------------------------------------------------------------
(* Strings are sequences of characters, None is a value of its own *)

None == <<"None">>

Whitespace == {" "}

RECURSIVE LStrip(_)
LStrip(s) == IF s # <<>> /\ Head(s) \in Whitespace THEN LStrip(Tail(s)) ELSE s

RECURSIVE RStrip(_)
RStrip(s) ==
    IF s # <<>> /\ s[Len(s)] \in Whitespace THEN RStrip(SubSeq(s, 1, Len(s) - 1)) ELSE s

\* str.strip()
Strip(s) == RStrip(LStrip(s))

\* a slip: the field is not trimmed
FieldUntrimmed(data, key) == IF data[key] = None \/ data[key] = <<>> THEN <<>> ELSE data[key]

\* (data.get(key) or "").strip()
Field(data, key) == Strip(IF data[key] = None \/ data[key] = <<>> THEN <<>> ELSE data[key])

----------------------------------------------------------------------------
(* Dates: datetime.strptime, date.fromisoformat and _parse_date *)

\* a DateTime column is <<year, month, day, hour, minute>>, a Date column
\* <<year, month, day>>, NULL is NoDate
NoDate == <<>>

Digits == {"0", "1", "2", "3", "4", "5", "6", "7", "8", "9"}

DigitVal(c) == (CHOOSE n \in 1..10 : <<"0", "1", "2", "3", "4", "5", "6", "7", "8", "9">>[n] = c) - 1

IsLeap(y) == (y % 4 = 0 /\ y % 100 # 0) \/ y % 400 = 0

DaysInMonth(y, m) ==
    IF m = 2 THEN (IF IsLeap(y) THEN 29 ELSE 28)
    ELSE IF m \in {4, 6, 9, 11} THEN 30 ELSE 31

\* the value of the first one or two characters when they are digits, else -1
OneDigit(s) == IF Len(s) >= 1 /\ s[1] \in Digits THEN DigitVal(s[1]) ELSE -1
TwoDigits(s) ==
    IF Len(s) >= 2 /\ s[1] \in Digits /\ s[2] \in Digits
    THEN 10 * DigitVal(s[1]) + DigitVal(s[2]) ELSE -1

NoMatch == <<-1, 0>>

\* one directive of a format against the head of s, as the regular expression that
\* strptime builds matches it: <<value, characters used>>, or NoMatch
MatchDirective(d, s) ==
    LET t == TwoDigits(s)
        o == OneDigit(s)
    IN  CASE d = "%Y" ->
               IF Len(s) >= 4 /\ \A i \in 1..4 : s[i] \in Digits
               THEN <<1000 * DigitVal(s[1]) + 100 * DigitVal(s[2])
                        + 10 * DigitVal(s[3]) + DigitVal(s[4]), 4>>
               ELSE NoMatch
          [] d = "%m" ->
               IF t \in 10..12 \/ t \in 1..9 THEN <<t, 2>>
               ELSE IF o \in 1..9 THEN <<o, 1>> ELSE NoMatch
          [] d = "%d" ->
               IF t \in 30..31 \/ t \in 10..29 \/ t \in 1..9 THEN <<t, 2>>
               ELSE IF o \in 1..9 THEN <<o, 1>>
               ELSE IF Len(s) >= 2 /\ s[1] = " " /\ OneDigit(Tail(s)) \in 1..9
                    THEN <<OneDigit(Tail(s)), 2>>
               ELSE NoMatch
          [] d = "%H" ->
               IF t \in 20..23 \/ t \in 0..19 THEN <<t, 2>>
               ELSE IF o \in 0..9 THEN <<o, 1>> ELSE NoMatch
          [] d = "%M" ->
               IF t \in 0..59 THEN <<t, 2>>
               ELSE IF o \in 0..9 THEN <<o, 1>> ELSE NoMatch

Directives == {"%Y", "%m", "%d", "%H", "%M"}

\* a literal of the format matches ignoring case (the pattern is compiled IGNORECASE)
LiteralMatches(lit, c) == c = lit \/ (lit = "T" /\ c = "t")

\* the fields of a datetime: defaults 1900-01-01 00:00
NoFields == [Y |-> 1900, m |-> 1, d |-> 1, H |-> 0, M |-> 0]

FieldOf(d) ==
    CASE d = "%Y" -> "Y" [] d = "%m" -> "m" [] d = "%d" -> "d" [] d = "%H" -> "H" [] d = "%M" -> "M"

\* datetime.strptime(s, fmt): the datetime, or NoDate where it raises ValueError
RECURSIVE Strptime(_, _, _)
Strptime(s, fmt, acc) ==
    IF fmt = <<>>
    THEN IF s = <<>> /\ acc.Y >= 1 /\ acc.d <= DaysInMonth(acc.Y, acc.m)
         THEN <<acc.Y, acc.m, acc.d, acc.H, acc.M>>
         ELSE NoDate
    ELSE LET f == Head(fmt) IN
         IF f \in Directives
         THEN LET r == MatchDirective(f, s) IN
              IF r = NoMatch THEN NoDate
              ELSE Strptime(SubSeq(s, r[2] + 1, Len(s)), Tail(fmt),
                            [acc EXCEPT ![FieldOf(f)] = r[1]])
         ELSE IF f = " "
         THEN IF s # <<>> /\ Head(s) \in Whitespace
              THEN Strptime(LStrip(s), Tail(fmt), acc)
              ELSE NoDate
         ELSE IF s # <<>> /\ LiteralMatches(f, Head(s))
              THEN Strptime(Tail(s), Tail(fmt), acc)
              ELSE NoDate

\* ("%Y-%m-%d", "%d.%m.%Y", "%Y-%m-%dT%H:%M", "%Y-%m-%d %H:%M")
DateFormats ==
    << <<"%Y", "-", "%m", "-", "%d">>,
       <<"%d", ".", "%m", ".", "%Y">>,
       <<"%Y", "-", "%m", "-", "%d", "T", "%H", ":", "%M">>,
       <<"%Y", "-", "%m", "-", "%d", " ", "%H", ":", "%M">> >>

RECURSIVE TryFormats(_, _)
TryFormats(value, fmts) ==
    IF fmts = <<>> THEN NoDate
    ELSE IF Strptime(value, Head(fmts), NoFields) # NoDate
         THEN Strptime(value, Head(fmts), NoFields)
         ELSE TryFormats(value, Tail(fmts))

\* a slip: the value is not stripped before the formats are tried
_parse_date_unstripped(value) ==
    IF value = None \/ value = <<>> THEN NoDate
    ELSE TryFormats(value, DateFormats)

_parse_date(value) ==
    IF value = None \/ value = <<>> THEN NoDate
    ELSE TryFormats(Strip(value), DateFormats)

\* a slip: the period dates go through _parse_date, as the signature dates do
fromisoformat_lenient(s) ==
    IF _parse_date(s) = NoDate THEN NoDate ELSE SubSeq(_parse_date(s), 1, 3)

\* date.fromisoformat(s): YYYY-MM-DD, or NoDate where it raises ValueError
fromisoformat(s) ==
    IF /\ Len(s) = 10
       /\ \A i \in {1, 2, 3, 4, 6, 7, 9, 10} : s[i] \in Digits
       /\ s[5] = "-" /\ s[8] = "-"
    THEN LET y == MatchDirective("%Y", s)[1]
             m == TwoDigits(SubSeq(s, 6, 7))
             d == TwoDigits(SubSeq(s, 9, 10))
         IN  IF y >= 1 /\ m \in 1..12 /\ d >= 1 /\ d <= DaysInMonth(y, m)
             THEN <<y, m, d>> ELSE NoDate
    ELSE NoDate

\* the date strings the forms send
IsoDate == <<"2", "0", "2", "4", "-", "0", "3", "-", "0", "1">>
DottedDate == <<"3", "1", ".", "1", "2", ".", "2", "0", "2", "4">>
SlashDate == <<"0", "3", "/", "0", "1", "/", "2", "0", "2", "4">>

DottedMarch == <<"0", "1", ".", "0", "3", ".", "2", "0", "2", "4">>
MinuteT ==
    <<"2", "0", "2", "4", "-", "0", "3", "-", "0", "1", "T", "1", "0", ":", "0", "0">>
MinuteSpace ==
    <<"2", "0", "2", "4", "-", "0", "3", "-", "0", "1", " ", "1", "0", ":", "0", "0">>
PaddedIso == <<" ", "2", "0", "2", "4", "-", "0", "3", "-", "0", "1", " ">>

----------------------------------------------------------------------------
(* Responses *)

Response(op, client_id, status, detail) ==
    [op            |-> op,
     client_id     |-> client_id,
     status        |-> status,
     detail        |-> detail,
     session       |-> NoDb,
     fault         |-> "none",
     database_name |-> NoDb]

\* what a handler does: the state it leaves and the response it sends
Result(S, response) == [state |-> S, response |-> response]

----------------------------------------------------------------------------
(* Registry services and the database manager *)

\* UserService.create_client_organization: a new row, committed by the service
UserService_create_client_organization(orgs, id) ==
    [i \in DOMAIN orgs \cup {id} |->
        IF i = id THEN [database_name |-> NoDb] ELSE orgs[i]]

\* UserService.create_client_user: the owner's row, committed by the service
UserService_create_client_user(users, client_organization_id) ==
    users \cup {[client_organization_id |-> client_organization_id]}

\* client_db_manager.create_client_database: materializes an empty schema the first
\* time, leaves a store that exists as it is
create_client_database(dbs, database_name) ==
    IF database_name \in DOMAIN dbs THEN dbs
    ELSE [d \in DOMAIN dbs \cup {database_name} |->
            IF d = database_name THEN EmptyStore ELSE dbs[d]]

\* a slip: a tenant that has a database is provisioned again under another name
ProvisionNameAnew(id, database_name) ==
    IF database_name # NoDb THEN <<"client", id, "new">> ELSE DbName(id)

\* database_name=client_org.database_name or f"client_{client_org.id}"
ProvisionName(id, database_name) ==
    IF database_name # NoDb THEN database_name ELSE DbName(id)

\* a slip: the identifier of the database is not stored on the tenant's row
SetDatabaseNameForgotten(orgs, id, created) == orgs

\* client.database_name = created
SetDatabaseName(orgs, id, created) ==
    [orgs EXCEPT ![id] = [@ EXCEPT !.database_name = created]]

\* a slip: the row is flagged, not deleted
DeleteOrganizationSoft(orgs, id) == orgs

\* db.delete(client): the row and, by the relationship's cascade, its users
DeleteOrganization(orgs, id) == [i \in DOMAIN orgs \ {id} |-> orgs[i]]
DeleteUsersOf(users, id) == {u \in users : u.client_organization_id # id}

----------------------------------------------------------------------------
(* GET /api/admin/clients *)

\* has_db = bool(org.database_name)
has_db(org) == org.database_name # NoDb

\* a slip: a tenant without a database is skipped whatever the filter
list_clients_provisioned(S, status, fault) ==
    LET op == "list_clients"
        orgs == S.client_organizations
        listed == {id \in DOMAIN orgs :
                     /\ has_db(orgs[id])
                     /\ ~(status = "has_db" /\ ~has_db(orgs[id]))
                     /\ ~(status = "no_db" /\ has_db(orgs[id]))}
        order == CHOOSE list \in [1..Cardinality(listed) -> listed] :
                     \A i, j \in DOMAIN list : i < j => list[i] > list[j]
        result == [i \in DOMAIN order |->
                     [id |-> order[i],
                      database_name |-> IF orgs[order[i]].database_name # NoDb
                                        THEN orgs[order[i]].database_name
                                        ELSE <<"not created">>,
                      client_organization_id |-> order[i]]]
    IN  IF fault = "query"
        THEN Result(S, [Response(op, 0, 500, "list error") EXCEPT !.fault = fault])
        ELSE Result(S, Response(op, 0, 200, result))

\* the tenants in descending id order, those the status filter skips left out; no
\* search string is given.  status is "" when the parameter is absent.
list_clients(S, status, fault) ==
    LET op == "list_clients"
        orgs == S.client_organizations
        listed == {id \in DOMAIN orgs :
                     /\ ~(status = "has_db" /\ ~has_db(orgs[id]))
                     /\ ~(status = "no_db" /\ has_db(orgs[id]))}
        order == CHOOSE list \in [1..Cardinality(listed) -> listed] :
                     \A i, j \in DOMAIN list : i < j => list[i] > list[j]
        result == [i \in DOMAIN order |->
                     [id |-> order[i],
                      database_name |-> IF orgs[order[i]].database_name # NoDb
                                        THEN orgs[order[i]].database_name
                                        ELSE <<"not created">>,
                      client_organization_id |-> order[i]]]
    IN  IF fault = "query"
        THEN Result(S, [Response(op, 0, 500, "list error") EXCEPT !.fault = fault])
        ELSE Result(S, Response(op, 0, 200, result))

----------------------------------------------------------------------------
(* POST /api/admin/clients *)

RequiredFields == <<"email", "phone", "contact_person", "login", "password">>

ValidData(create_database) ==
    [email           |-> <<"a">>,
     phone           |-> <<"1">>,
     contact_person  |-> <<" ", "a">>,
     login           |-> <<"a">>,
     password        |-> <<"a", " ">>,
     create_database |-> create_database]

\* the payloads tried: all fields given, or one of them missing or blank
RegistrationData ==
    {ValidData(c) : c \in BOOLEAN}
    \cup {[ValidData(c) EXCEPT ![RequiredFields[k]] = v] :
            c \in BOOLEAN, k \in 1..Len(RequiredFields), v \in {None, <<>>, <<" ">>}}

\* the step of the registration that fails
RegistrationFaults(data) ==
    IF data.create_database
    THEN {"none", "create_org", "create_user", "provision", "commit"}
    ELSE {"none", "create_org", "create_user"}

\* the backend validation: the detail of the 400 raised, "" when the payload passes
Validate(data) ==
    IF Field(data, "email") = <<>> THEN "email missing"
    ELSE IF Field(data, "phone") = <<>> THEN "phone missing"
    ELSE IF Field(data, "contact_person") = <<>> THEN "contact person missing"
    ELSE IF Field(data, "login") = <<>> \/ Field(data, "password") = <<>>
         THEN "login or password missing"
    ELSE ""

\* "database_name": created_db_name or client_org.database_name
RegisteredDatabaseName(created_db_name, database_name) ==
    IF created_db_name # NoDb THEN created_db_name ELSE database_name

admin_create_client_organization(S, data, fault) ==
    LET op == "admin_create_client_organization"
        id == S.next_org_id
        failed == [Response(op, id, 500, "registration error") EXCEPT !.fault = fault]
        \* 1) UserService.create_client_organization
        S1 == [S EXCEPT !.client_organizations =
                            UserService_create_client_organization(@, id),
                        !.next_org_id = id + 1]
        \* 2) UserService.create_client_user
        S2 == [S1 EXCEPT !.client_users = UserService_create_client_user(@, id)]
        \* 3) client_db_manager.create_client_database
        name == ProvisionName(id, S1.client_organizations[id].database_name)
        S3 == [S2 EXCEPT !.stores = create_client_database(@, name)]
        \* client_org.database_name = created_db_name; db.commit()
        S4 == [S3 EXCEPT !.client_organizations = SetDatabaseName(@, id, name)]
    IN  IF Validate(data) # "" THEN Result(S, Response(op, 0, 400, Validate(data)))
        ELSE IF fault = "create_org" THEN Result(S, failed)
        ELSE IF fault = "create_user" THEN Result(S1, failed)
        ELSE IF ~data.create_database
        THEN Result(S2, [Response(op, id, 201, "client registered") EXCEPT
                            !.database_name =
                                RegisteredDatabaseName(NoDb, S2.client_organizations[id].database_name)])
        ELSE IF fault = "provision" THEN Result(S2, failed)
        ELSE IF fault = "commit" THEN Result(S3, failed)
        ELSE Result(S4, [Response(op, id, 201, "client registered") EXCEPT
                            !.database_name =
                                RegisteredDatabaseName(name, S4.client_organizations[id].database_name)])

----------------------------------------------------------------------------
(* POST /api/admin/clients/{client_id}/create-database *)

ProvisionFaults == {"none", "provision", "commit"}

\* a slip: the name is stored on the row before the database is created, and the
\* failure is answered without a rollback
create_database_for_client_named_first(S, client_id, fault) ==
    LET op == "create_database_for_client" IN
    IF client_id \notin DOMAIN S.client_organizations
    THEN Result(S, Response(op, client_id, 404, "client not found"))
    ELSE LET created == ProvisionName(client_id, S.client_organizations[client_id].database_name)
             failed == [Response(op, client_id, 500, "database creation error")
                          EXCEPT !.fault = fault]
             S1 == [S EXCEPT !.client_organizations = SetDatabaseName(@, client_id, created)]
             S2 == [S1 EXCEPT !.stores = create_client_database(@, created)]
         IN  IF fault = "provision" THEN Result(S1, failed)
             ELSE IF fault = "commit" THEN Result(S2, failed)
             ELSE Result(S2, [Response(op, client_id, 200, "database created")
                                EXCEPT !.database_name = created])

create_database_for_client(S, client_id, fault) ==
    LET op == "create_database_for_client" IN
    IF client_id \notin DOMAIN S.client_organizations
    THEN Result(S, Response(op, client_id, 404, "client not found"))
    ELSE LET created == ProvisionName(client_id, S.client_organizations[client_id].database_name)
             failed == [Response(op, client_id, 500, "database creation error")
                          EXCEPT !.fault = fault]
             S1 == [S EXCEPT !.stores = create_client_database(@, created)]
             S2 == [S1 EXCEPT !.client_organizations = SetDatabaseName(@, client_id, created)]
         IN  IF fault = "provision" THEN Result(S, failed)
             ELSE IF fault = "commit" THEN Result(S1, failed)
             ELSE Result(S2, [Response(op, client_id, 200, "database created")
                                EXCEPT !.database_name = created])

----------------------------------------------------------------------------
(* DELETE /api/admin/clients/{client_id} *)

\* a slip: no lookup result check, db.delete(None) raises
delete_client_unchecked(S, client_id) ==
    IF client_id \notin DOMAIN S.client_organizations
    THEN Result(S, Response("delete_client", client_id, 500, "Internal Server Error"))
    ELSE Result([S EXCEPT !.client_organizations = DeleteOrganization(@, client_id),
                          !.client_users = DeleteUsersOf(@, client_id)],
                Response("delete_client", client_id, 200, "client deleted"))

delete_client(S, client_id) ==
    LET op == "delete_client" IN
    IF client_id \notin DOMAIN S.client_organizations
    THEN Result(S, Response(op, client_id, 404, "client not found"))
    ELSE Result([S EXCEPT !.client_organizations = DeleteOrganization(@, client_id),
                          !.client_users = DeleteUsersOf(@, client_id)],
                Response(op, client_id, 200, "client deleted"))

----------------------------------------------------------------------------
(* A per-tenant handler: tenant lookup, tenant session, try / except / finally *)

\* how the body of a handler ends: it returns, raises HTTPException, or raises
\* another exception (fault names the statement that failed).  store is what the
\* tenant's database holds at that moment: uncommitted work is not in it.
Returned(status, detail, store) ==
    [raised |-> "none", status |-> status, detail |-> detail, store |-> store, fault |-> "none"]

HTTPException(status, detail, store) ==
    [raised |-> "HTTPException", status |-> status, detail |-> detail, store |-> store,
     fault |-> "none"]

Exception(fault, store) ==
    [raised |-> "Exception", status |-> 500, detail |-> "Internal Server Error",
     store |-> store, fault |-> fault]

\* except Exception as e: session.rollback(); raise HTTPException(status_code=500, ...)
\* (it catches the HTTPException raised inside the try as well)
ExceptException(out, detail) ==
    IF out.raised = "none" THEN out
    ELSE [out EXCEPT !.raised = "HTTPException", !.status = 500, !.detail = detail]

\* except HTTPException: raise / except Exception as e: session.rollback(); raise 500
ExceptHTTPExceptionReraise(out, detail) ==
    IF out.raised = "Exception"
    THEN [out EXCEPT !.raised = "HTTPException", !.status = 500, !.detail = detail]
    ELSE out

\* _get_client_org_or_404: the tenant's row, when it exists and has a database
HasClientOrg(S, client_id) ==
    /\ client_id \in DOMAIN S.client_organizations
    /\ S.client_organizations[client_id].database_name # NoDb

\* a slip: the session is opened on the database of the registry's first tenant
SessionDatabaseOfFirst(S, client_id) ==
    S.client_organizations[
        SetMin({i \in DOMAIN S.client_organizations :
                  S.client_organizations[i].database_name # NoDb})].database_name

\* the identifier handed to get_client_session: client_org.database_name
SessionDatabase(S, client_id) == S.client_organizations[client_id].database_name

\* client_db_manager.get_client_session(database_name)
get_client_session(sessions, database_name) == sessions (+) SetToBag({database_name})

\* a slip: the handler returns without closing its session
session_close_missing(sessions, database_name) == sessions

\* finally: session.close()
session_close(sessions, database_name) == sessions (-) SetToBag({database_name})

\* what the tenant session of a request reads and writes
TenantStore(S, client_id) == S.stores[SessionDatabase(S, client_id)]

\* one request to /client/{client_id}/...: out is the way the body of the handler
\* ends when it runs on TenantStore(S, client_id)
Serve(S, op, client_id, out) ==
    IF ~HasClientOrg(S, client_id)
    THEN Result(S, Response(op, client_id, 404, "client database not found"))
    ELSE LET db == SessionDatabase(S, client_id)
             opened == get_client_session(S.open_sessions, db)
         IN  Result([S EXCEPT !.stores = [@ EXCEPT ![db] = out.store],
                              !.open_sessions = session_close(opened, db)],
                    [Response(op, client_id, out.status, out.detail)
                       EXCEPT !.session = db, !.fault = out.fault])

Insert(store, table, row) == [store EXCEPT ![table] = @ \cup {row}]
Delete(store, table, row) == [store EXCEPT ![table] = @ \ {row}]

Find(rows, id) == {r \in rows : r.id = id}

\* query.first(): rows come in primary-key order
First(rows) == CHOOSE r \in rows : r.id = SetMin({x.id : x \in rows})

\* a page handler: it reads, renders the template and has no except clause
Page(store, template, fault) ==
    IF fault = "query" THEN Exception(fault, store) ELSE Returned(200, template, store)

ReadFaults == {"none", "query"}
WriteFaults == {"none", "query", "commit"}
InsertFaults == {"none", "commit"}
RefreshFaults == {"none", "commit", "refresh"}

----------------------------------------------------------------------------
(* app/routes/client_clients.py *)

\* a slip: the page is rendered without looking the tenant up
client_clients_page_unchecked(S, client_id, fault) ==
    Result(S, Response("client_clients_page", client_id, 200, "client/clients.html"))

client_clients_page(S, client_id, fault) ==
    Serve(S, "client_clients_page", client_id,
          Page(TenantStore(S, client_id), "client/clients.html", fault))

\* a slip: the statement that fails comes after the commit
create_client_for_tenant_body_late(store, fault) ==
    ExceptException(
        IF fault = "commit"
        THEN Exception(fault, Insert(store, "clients", [id |-> NextId(store.clients)]))
        ELSE Returned(200, "client created",
                      Insert(store, "clients", [id |-> NextId(store.clients)])),
        "client creation error")

create_client_for_tenant_body(store, fault) ==
    ExceptException(
        IF fault = "commit" THEN Exception(fault, store)
        ELSE Returned(200, "client created",
                      Insert(store, "clients", [id |-> NextId(store.clients)])),
        "client creation error")

create_client_for_tenant(S, client_id, fault) ==
    Serve(S, "create_client_for_tenant", client_id,
          create_client_for_tenant_body(TenantStore(S, client_id), fault))

client_detail_page_body(store, client_inner_id, fault) ==
    IF fault = "query" THEN Exception(fault, store)
    ELSE IF Find(store.clients, client_inner_id) = {}
    THEN HTTPException(404, "client not found", store)
    ELSE Returned(200, "client/client_card.html", store)

client_detail_page(S, client_id, client_inner_id, fault) ==
    Serve(S, "client_detail_page", client_id,
          client_detail_page_body(TenantStore(S, client_id), client_inner_id, fault))

\* a slip: the second key of the ORDER BY ascending
signature_order_ascending(a, b) ==
    LET nulls_last(row) == IF row.end_date = NoDate THEN 1 ELSE 0 IN
    \/ nulls_last(a) < nulls_last(b)
    \/ /\ nulls_last(a) = 0 /\ nulls_last(b) = 0
       /\ \E i \in 1..5 : /\ a.end_date[i] < b.end_date[i]
                          /\ \A j \in 1..(i - 1) : a.end_date[j] = b.end_date[j]

\* .order_by(case((end_date.is_(None), 1), else_=0), end_date.desc()): TRUE when
\* row a sorts strictly before row b
signature_order(a, b) ==
    LET nulls_last(row) == IF row.end_date = NoDate THEN 1 ELSE 0 IN
    \/ nulls_last(a) < nulls_last(b)
    \/ /\ nulls_last(a) = 0 /\ nulls_last(b) = 0
       /\ \E i \in 1..5 : /\ a.end_date[i] > b.end_date[i]
                          /\ \A j \in 1..(i - 1) : a.end_date[j] = b.end_date[j]

\* signatures = session.query(DigitalSignature).filter(...).order_by(...).all():
\* the lists the query can return (rows with equal keys come in any order)
client_detail_signatures(store, client_inner_id) ==
    LET rows == {s \in store.digital_signatures : s.client_id = client_inner_id}
        n == Cardinality(rows)
    IN  {list \in [1..n -> rows] :
            /\ \A i \in 1..n : \A j \in 1..n : list[i] = list[j] => i = j
            /\ \A i \in 1..n : \A j \in (i + 1)..n : ~signature_order(list[j], list[i])}

\* a slip: a date string that matches no format is refused
add_client_signature_body_strict(store, client_inner_id, start_date, end_date, fault) ==
    ExceptException(
        IF fault = "query" THEN Exception(fault, store)
        ELSE IF Find(store.clients, client_inner_id) = {}
        THEN HTTPException(404, "client not found", store)
        ELSE IF \E d \in {start_date, end_date} :
                    d # None /\ d # <<>> /\ _parse_date(d) = NoDate
        THEN HTTPException(400, "bad date format", store)
        ELSE IF fault = "commit" THEN Exception(fault, store)
        ELSE Returned(303, "redirect to the client card",
                      Insert(store, "digital_signatures",
                             [id         |-> NextId(store.digital_signatures),
                              client_id  |-> client_inner_id,
                              start_date |-> _parse_date(start_date),
                              end_date   |-> _parse_date(end_date)])),
        "signature creation error")

add_client_signature_body(store, client_inner_id, start_date, end_date, fault) ==
    ExceptException(
        IF fault = "query" THEN Exception(fault, store)
        ELSE IF Find(store.clients, client_inner_id) = {}
        THEN HTTPException(404, "client not found", store)
        ELSE IF fault = "commit" THEN Exception(fault, store)
        ELSE Returned(303, "redirect to the client card",
                      Insert(store, "digital_signatures",
                             [id         |-> NextId(store.digital_signatures),
                              client_id  |-> client_inner_id,
                              start_date |-> _parse_date(start_date),
                              end_date   |-> _parse_date(end_date)])),
        "signature creation error")

add_client_signature(S, client_id, client_inner_id, start_date, end_date, fault) ==
    Serve(S, "add_client_signature", client_id,
          add_client_signature_body(TenantStore(S, client_id), client_inner_id, start_date, end_date, fault))

----------------------------------------------------------------------------
(* app/routes/client_settings.py *)

client_settings_page(S, client_id, fault) ==
    Serve(S, "client_settings_page", client_id,
          Page(TenantStore(S, client_id), "client/settings.html", fault))

settings_create_client_organization_body(store, fault) ==
    ExceptException(
        IF fault = "commit" THEN Exception(fault, store)
        ELSE Returned(201, "organization created",
                      Insert(store, "organizations", [id |-> NextId(store.organizations)])),
        "organization creation error")

settings_create_client_organization(S, client_id, fault) ==
    Serve(S, "settings_create_client_organization", client_id,
          settings_create_client_organization_body(TenantStore(S, client_id), fault))

delete_client_organization_body(store, org_id, fault) ==
    ExceptHTTPExceptionReraise(
        IF fault = "query" THEN Exception(fault, store)
        ELSE IF Find(store.organizations, org_id) = {}
        THEN HTTPException(404, "organization not found", store)
        ELSE IF fault = "commit" THEN Exception(fault, store)
        ELSE Returned(200, "organization deleted",
                      Delete(store, "organizations", [id |-> org_id])),
        "organization deletion error")

delete_client_organization(S, client_id, org_id, fault) ==
    Serve(S, "delete_client_organization", client_id,
          delete_client_organization_body(TenantStore(S, client_id), org_id, fault))

----------------------------------------------------------------------------
(* app/routes/client_reports.py *)

client_reports_page(S, client_id, fault) ==
    Serve(S, "client_reports_page", client_id,
          Page(TenantStore(S, client_id), "client/reports.html", fault))

create_report_body(store, fault) ==
    ExceptException(
        IF fault = "commit" THEN Exception(fault, store)
        ELSE LET committed ==
                     Insert(store, "report_templates", [id |-> NextId(store.report_templates)])
             IN  IF fault = "refresh" THEN Exception(fault, committed)
                 ELSE Returned(201, "report template created", committed),
        "report creation error")

create_report(S, client_id, fault) ==
    Serve(S, "create_report", client_id, create_report_body(TenantStore(S, client_id), fault))

\* inner_client = session.query(Client).first()
InnerClient(store) == IF store.clients = {} THEN {} ELSE {First(store.clients)}

\* the ClientReport rows of a client for a template
Links(store, inner_id, template_id) ==
    {l \in store.client_reports : l.client_id = inner_id /\ l.template_id = template_id}

\* a slip: the join does not filter on the client of the ClientReport
HistoryOfAnyClient(store, inner_id) ==
    {h \in store.client_report_history :
        \E l \in store.client_reports : l.id = h.client_report_id}

\* the ClientReportHistory rows joined to the ClientReport rows of a client
HistoryOf(store, inner_id) ==
    {h \in store.client_report_history :
        \E l \in store.client_reports : l.id = h.client_report_id /\ l.client_id = inner_id}

\* the early return of the two listings: no Client row, an empty list
Listing(store, fault) ==
    IF fault = "query" THEN Exception(fault, store)
    ELSE IF InnerClient(store) = {} THEN Returned(200, "[]", store)
    ELSE Returned(200, "json", store)

assigned_reports_json(S, client_id, fault) ==
    Serve(S, "assigned_reports_json", client_id, Listing(TenantStore(S, client_id), fault))

available_reports_json(S, client_id, fault) ==
    Serve(S, "available_reports_json", client_id, Listing(TenantStore(S, client_id), fault))

\* the rows of assigned-reports.json: the ClientReport rows of the inner client
\* joined to their ReportTemplate.  is_active is True on every row the handlers
\* write, so its filter keeps every row.
assigned_reports(store) ==
    IF InnerClient(store) = {} THEN {}
    ELSE {[id |-> link.id, template_id |-> link.template_id] :
            link \in {l \in store.client_reports :
                        /\ l.client_id = First(InnerClient(store)).id
                        /\ Find(store.report_templates, l.template_id) # {}}}

\* a slip: the templates are listed without leaving the assigned ones out
available_reports_all(store) ==
    IF InnerClient(store) = {} THEN {}
    ELSE {[template_id |-> r.id] : r \in store.report_templates}

\* the rows of available-reports.json: the templates whose id is not the
\* template_id of a ClientReport of the inner client
available_reports(store) ==
    IF InnerClient(store) = {} THEN {}
    ELSE LET assigned == {r.template_id :
                            r \in {l \in store.client_reports :
                                     l.client_id = First(InnerClient(store)).id}}
         IN  {[template_id |-> r.id] : r \in {t \in store.report_templates : t.id \notin assigned}}

\* a slip: the link is inserted without looking for an existing one
assign_report_body_unchecked(store, template_id, fault) ==
    IF fault = "query" THEN Exception(fault, store)
    ELSE IF InnerClient(store) = {}
    THEN HTTPException(400, "no row in table clients", store)
    ELSE IF Find(store.report_templates, template_id) = {}
    THEN HTTPException(404, "report template not found", store)
    ELSE IF fault = "commit" THEN Exception(fault, store)
    ELSE Returned(200, "report added",
                  Insert(store, "client_reports",
                         [id          |-> NextId(store.client_reports),
                          client_id   |-> First(InnerClient(store)).id,
                          template_id |-> template_id]))

assign_report_body(store, template_id, fault) ==
    IF fault = "query" THEN Exception(fault, store)
    ELSE IF InnerClient(store) = {}
    THEN HTTPException(400, "no row in table clients", store)
    ELSE IF Find(store.report_templates, template_id) = {}
    THEN HTTPException(404, "report template not found", store)
    ELSE LET inner_client == First(InnerClient(store)) IN
         IF Links(store, inner_client.id, template_id) # {}
         THEN HTTPException(400, "report already added", store)
         ELSE IF fault = "commit" THEN Exception(fault, store)
         ELSE Returned(200, "report added",
                       Insert(store, "client_reports",
                              [id          |-> NextId(store.client_reports),
                               client_id   |-> inner_client.id,
                               template_id |-> template_id]))

assign_report(S, client_id, template_id, fault) ==
    Serve(S, "assign_report", client_id,
          assign_report_body(TenantStore(S, client_id), template_id, fault))

\* start_d = date.fromisoformat(start_date)
\* end_d = date.fromisoformat(end_date) if end_date else None
\* TRUE when one of them raises ValueError
BadPeriodDates(start_date, end_date) ==
    \/ fromisoformat(start_date) = NoDate
    \/ end_date # None /\ end_date # <<>> /\ fromisoformat(end_date) = NoDate

PeriodEnd(end_date) ==
    IF end_date # None /\ end_date # <<>> THEN fromisoformat(end_date) ELSE NoDate

\* a slip: the dates are parsed before the ClientReport is looked up
add_period_body_dates_first(store, template_id, start_date, end_date, fault) ==
    IF fault = "query" THEN Exception(fault, store)
    ELSE IF InnerClient(store) = {}
    THEN HTTPException(400, "no row in table clients", store)
    ELSE LET inner_client == First(InnerClient(store)) IN
         IF BadPeriodDates(start_date, end_date)
         THEN HTTPException(400, "bad date format", store)
         ELSE IF Links(store, inner_client.id, template_id) = {}
         THEN HTTPException(404, "client_report link not found", store)
         ELSE IF fault = "commit" THEN Exception(fault, store)
         ELSE Returned(200, "period added",
                       Insert(store, "client_report_history",
                              [id               |-> NextId(store.client_report_history),
                               client_report_id |->
                                   First(Links(store, inner_client.id, template_id)).id,
                               start_date       |-> fromisoformat(start_date),
                               end_date         |-> PeriodEnd(end_date)]))

add_period_body(store, template_id, start_date, end_date, fault) ==
    IF fault = "query" THEN Exception(fault, store)
    ELSE IF InnerClient(store) = {}
    THEN HTTPException(400, "no row in table clients", store)
    ELSE LET inner_client == First(InnerClient(store)) IN
         IF Links(store, inner_client.id, template_id) = {}
         THEN HTTPException(404, "client_report link not found", store)
         ELSE IF BadPeriodDates(start_date, end_date)
         THEN HTTPException(400, "bad date format", store)
         ELSE IF fault = "commit" THEN Exception(fault, store)
         ELSE Returned(200, "period added",
                       Insert(store, "client_report_history",
                              [id               |-> NextId(store.client_report_history),
                               client_report_id |->
                                   First(Links(store, inner_client.id, template_id)).id,
                               start_date       |-> fromisoformat(start_date),
                               end_date         |-> PeriodEnd(end_date)]))

add_period(S, client_id, template_id, start_date, end_date, fault) ==
    Serve(S, "add_period", client_id,
          add_period_body(TenantStore(S, client_id), template_id, start_date, end_date, fault))

update_period_body(store, history_id, start_date, end_date, fault) ==
    IF fault = "query" THEN Exception(fault, store)
    ELSE IF InnerClient(store) = {}
    THEN HTTPException(400, "no row in table clients", store)
    ELSE LET inner_client == First(InnerClient(store))
             found == Find(HistoryOf(store, inner_client.id), history_id)
         IN  IF found = {}
             THEN HTTPException(404, "period not found", store)
             ELSE IF BadPeriodDates(start_date, end_date)
             THEN HTTPException(400, "bad date format", store)
             ELSE IF fault = "commit" THEN Exception(fault, store)
             ELSE Returned(200, "period updated",
                           Insert(Delete(store, "client_report_history", First(found)),
                                  "client_report_history",
                                  [First(found) EXCEPT
                                      !.start_date = fromisoformat(start_date),
                                      !.end_date = PeriodEnd(end_date)]))

update_period(S, client_id, history_id, start_date, end_date, fault) ==
    Serve(S, "update_period", client_id,
          update_period_body(TenantStore(S, client_id), history_id, start_date, end_date, fault))

\* a slip: the link is deleted without looking for its periods
delete_report_body_unchecked(store, template_id, fault) ==
    IF fault = "query" THEN Exception(fault, store)
    ELSE IF InnerClient(store) = {}
    THEN HTTPException(400, "no row in table clients", store)
    ELSE IF Links(store, First(InnerClient(store)).id, template_id) = {}
    THEN HTTPException(404, "report not found", store)
    ELSE IF fault = "commit" THEN Exception(fault, store)
    ELSE Returned(200, "report deleted",
                  Delete(store, "client_reports",
                         First(Links(store, First(InnerClient(store)).id, template_id))))

delete_report_body(store, template_id, fault) ==
    IF fault = "query" THEN Exception(fault, store)
    ELSE IF InnerClient(store) = {}
    THEN HTTPException(400, "no row in table clients", store)
    ELSE LET inner_client == First(InnerClient(store))
             has_periods ==
                 {h \in store.client_report_history :
                     \E l \in Links(store, inner_client.id, template_id) :
                         l.id = h.client_report_id}
             link == Links(store, inner_client.id, template_id)
         IN  IF has_periods # {}
             THEN HTTPException(400, "cannot delete the report: it has periods", store)
             ELSE IF link = {}
             THEN HTTPException(404, "report not found", store)
             ELSE IF fault = "commit" THEN Exception(fault, store)
             ELSE Returned(200, "report deleted", Delete(store, "client_reports", First(link)))

delete_report(S, client_id, template_id, fault) ==
    Serve(S, "delete_report", client_id,
          delete_report_body(TenantStore(S, client_id), template_id, fault))

\* a slip: the row is found and the request answered, session.delete is missing
delete_period_body_kept(store, history_id, fault) ==
    IF fault = "query" THEN Exception(fault, store)
    ELSE IF InnerClient(store) = {}
    THEN HTTPException(400, "no row in table clients", store)
    ELSE LET inner_client == First(InnerClient(store))
             found == Find(HistoryOf(store, inner_client.id), history_id)
         IN  IF found = {}
             THEN HTTPException(404, "period not found", store)
             ELSE IF fault = "commit" THEN Exception(fault, store)
             ELSE Returned(200, "period deleted", store)

delete_period_body(store, history_id, fault) ==
    IF fault = "query" THEN Exception(fault, store)
    ELSE IF InnerClient(store) = {}
    THEN HTTPException(400, "no row in table clients", store)
    ELSE LET inner_client == First(InnerClient(store))
             found == Find(HistoryOf(store, inner_client.id), history_id)
         IN  IF found = {}
             THEN HTTPException(404, "period not found", store)
             ELSE IF fault = "commit" THEN Exception(fault, store)
             ELSE Returned(200, "period deleted",
                           Delete(store, "client_report_history", First(found)))

delete_period(S, client_id, history_id, fault) ==
    Serve(S, "delete_period", client_id,
          delete_period_body(TenantStore(S, client_id), history_id, fault))

report_detail_page_body(store, report_id, fault) ==
    IF fault = "query" THEN Exception(fault, store)
    ELSE IF Find(store.report_templates, report_id) = {}
    THEN HTTPException(404, "report not found", store)
    ELSE Returned(200, "client/report_card.html", store)

report_detail_page(S, client_id, report_id, fault) ==
    Serve(S, "report_detail_page", client_id,
          report_detail_page_body(TenantStore(S, client_id), report_id, fault))

add_report_period_body(store, report_id, due_date, fault) ==
    ExceptException(
        IF fault = "query" THEN Exception(fault, store)
        ELSE IF Find(store.report_templates, report_id) = {}
        THEN HTTPException(404, "report not found", store)
        ELSE IF Strptime(due_date, DateFormats[1], NoFields) = NoDate
        THEN Exception("ValueError", store)
        ELSE IF fault = "commit" THEN Exception(fault, store)
        ELSE LET committed ==
                     Insert(store, "report_periods",
                            [id        |-> NextId(store.report_periods),
                             report_id |-> report_id,
                             due_date  |-> Strptime(due_date, DateFormats[1], NoFields)])
             IN  IF fault = "refresh" THEN Exception(fault, committed)
                 ELSE Returned(200, "period added", committed),
        "period creation error")

add_report_period(S, client_id, report_id, due_date, fault) ==
    Serve(S, "add_report_period", client_id,
          add_report_period_body(TenantStore(S, client_id), report_id, due_date, fault))

----------------------------------------------------------------------------
(* app/routes/client_dashboard.py *)

\* except Exception: the aggregates degrade to empty lists and zero counts, and the
\* page is rendered
Degrading(store, template, fault) ==
    IF fault # "none"
    THEN [Returned(200, "empty", store) EXCEPT !.fault = fault]
    ELSE Returned(200, template, store)

\* a slip: the handler resets only the aggregate whose query failed
dashboard_data_partial(store, threshold_end, fault) ==
    LET expiring == {s \in store.digital_signatures :
                        /\ s.end_date # NoDate
                        /\ \/ s.end_date = threshold_end
                           \/ \E i \in 1..5 :
                                 /\ s.end_date[i] < threshold_end[i]
                                 /\ \A j \in 1..(i - 1) : s.end_date[j] = threshold_end[j]}
    IN  [reports |-> <<>>,
         calendar |-> <<>>,
         clients_count |-> IF fault = "clients" THEN 0 ELSE Cardinality(store.clients),
         expiring_signatures_count |->
             IF fault = "signatures" THEN 0 ELSE Cardinality(expiring)]

\* the aggregates the dashboard shows: the query named by fault raises, "none" for
\* a request where all four succeed.  No handler writes a Report or a
\* CalendarHandbook row, so these two lists are empty; threshold_end is the tenth
\* day after the end of the current month, to the minute.
dashboard_data(store, threshold_end, fault) ==
    LET expiring == {s \in store.digital_signatures :
                        /\ s.end_date # NoDate
                        /\ \/ s.end_date = threshold_end
                           \/ \E i \in 1..5 :
                                 /\ s.end_date[i] < threshold_end[i]
                                 /\ \A j \in 1..(i - 1) : s.end_date[j] = threshold_end[j]}
    IN  IF fault # "none"
        THEN [reports |-> <<>>, calendar |-> <<>>,
              clients_count |-> 0, expiring_signatures_count |-> 0]
        ELSE [reports |-> <<>>, calendar |-> <<>>,
              clients_count |-> Cardinality(store.clients),
              expiring_signatures_count |-> Cardinality(expiring)]

client_dashboard(S, client_id, fault) ==
    Serve(S, "client_dashboard", client_id,
          Degrading(TenantStore(S, client_id), "client/dashboard.html", fault))

expiring_signatures_page(S, client_id, fault) ==
    Serve(S, "expiring_signatures_page", client_id,
          Degrading(TenantStore(S, client_id), "client/expiring-signatures.html", fault))

----------------------------------------------------------------------------
(* The requests a client can send to each per-tenant route *)

\* the date strings the forms send: <<start_date, end_date>>
SignatureDates == {<<None, None>>, <<IsoDate, DottedDate>>, <<SlashDate, IsoDate>>}
PeriodDates ==
    {<<IsoDate, None>>, <<IsoDate, IsoDate>>, <<DottedDate, None>>, <<IsoDate, DottedDate>>}
DueDates == {IsoDate, DottedDate}

client_clients_page_requests(S, client_id) ==
    {client_clients_page(S, client_id, fault) : fault \in ReadFaults}

create_client_for_tenant_requests(S, client_id) ==
    {create_client_for_tenant(S, client_id, fault) : fault \in InsertFaults}

client_detail_page_requests(S, client_id) ==
    {client_detail_page(S, client_id, client_inner_id, fault) :
        client_inner_id \in RowIds, fault \in ReadFaults}

add_client_signature_requests(S, client_id) ==
    {add_client_signature(S, client_id, client_inner_id, dates[1], dates[2], fault) :
        client_inner_id \in RowIds, dates \in SignatureDates, fault \in WriteFaults}

client_settings_page_requests(S, client_id) ==
    {client_settings_page(S, client_id, fault) : fault \in ReadFaults}

settings_create_client_organization_requests(S, client_id) ==
    {settings_create_client_organization(S, client_id, fault) : fault \in InsertFaults}

delete_client_organization_requests(S, client_id) ==
    {delete_client_organization(S, client_id, org_id, fault) :
        org_id \in RowIds, fault \in WriteFaults}

client_reports_page_requests(S, client_id) ==
    {client_reports_page(S, client_id, fault) : fault \in ReadFaults}

create_report_requests(S, client_id) ==
    {create_report(S, client_id, fault) : fault \in RefreshFaults}

assigned_reports_json_requests(S, client_id) ==
    {assigned_reports_json(S, client_id, fault) : fault \in ReadFaults}

available_reports_json_requests(S, client_id) ==
    {available_reports_json(S, client_id, fault) : fault \in ReadFaults}

assign_report_requests(S, client_id) ==
    {assign_report(S, client_id, template_id, fault) :
        template_id \in RowIds, fault \in WriteFaults}

add_period_requests(S, client_id) ==
    {add_period(S, client_id, template_id, dates[1], dates[2], fault) :
        template_id \in RowIds, dates \in PeriodDates, fault \in WriteFaults}

update_period_requests(S, client_id) ==
    {update_period(S, client_id, history_id, dates[1], dates[2], fault) :
        history_id \in RowIds, dates \in PeriodDates, fault \in WriteFaults}

delete_report_requests(S, client_id) ==
    {delete_report(S, client_id, template_id, fault) :
        template_id \in RowIds, fault \in WriteFaults}

delete_period_requests(S, client_id) ==
    {delete_period(S, client_id, history_id, fault) :
        history_id \in RowIds, fault \in WriteFaults}

report_detail_page_requests(S, client_id) ==
    {report_detail_page(S, client_id, report_id, fault) :
        report_id \in RowIds, fault \in ReadFaults}

add_report_period_requests(S, client_id) ==
    {add_report_period(S, client_id, report_id, due_date, fault) :
        report_id \in RowIds, due_date \in DueDates, fault \in WriteFaults \cup RefreshFaults}

client_dashboard_requests(S, client_id) ==
    {client_dashboard(S, client_id, fault) :
        fault \in {"none", "reports", "calendar", "clients", "signatures"}}

expiring_signatures_page_requests(S, client_id) ==
    {expiring_signatures_page(S, client_id, fault) : fault \in ReadFaults}

\* the handlers that write to the tenant's store
WriteRequests(S, client_id) ==
    create_client_for_tenant_requests(S, client_id)
    \cup add_client_signature_requests(S, client_id)
    \cup settings_create_client_organization_requests(S, client_id)
    \cup delete_client_organization_requests(S, client_id)
    \cup create_report_requests(S, client_id)
    \cup assign_report_requests(S, client_id)
    \cup add_period_requests(S, client_id)
    \cup update_period_requests(S, client_id)
    \cup delete_report_requests(S, client_id)
    \cup delete_period_requests(S, client_id)
    \cup add_report_period_requests(S, client_id)

\* the handlers that only read it
ReadRequests(S, client_id) ==
    client_clients_page_requests(S, client_id)
    \cup client_detail_page_requests(S, client_id)
    \cup client_settings_page_requests(S, client_id)
    \cup client_reports_page_requests(S, client_id)
    \cup assigned_reports_json_requests(S, client_id)
    \cup available_reports_json_requests(S, client_id)
    \cup report_detail_page_requests(S, client_id)
    \cup client_dashboard_requests(S, client_id)
    \cup expiring_signatures_page_requests(S, client_id)

\* every route under /client/{client_id}/...
Requests(S, client_id) == WriteRequests(S, client_id) \cup ReadRequests(S, client_id)

----------------------------------------------------------------------------
(* The system: one action per handler *)

\* the request is served: the handler's result becomes the state
Do(result) ==
    /\ WithinBounds(result.state.stores)
    /\ client_organizations' = result.state.client_organizations
    /\ client_users' = result.state.client_users
    /\ next_org_id' = result.state.next_org_id
    /\ stores' = result.state.stores
    /\ open_sessions' = result.state.open_sessions
    /\ transactions' = transactions

On_admin_create_client_organization ==
    /\ next_org_id <= MaxTenants
    /\ \E data \in RegistrationData : \E fault \in RegistrationFaults(data) :
          Do(admin_create_client_organization(State, data, fault))

On_create_database_for_client ==
    \E client_id \in TenantIds, fault \in ProvisionFaults :
        Do(create_database_for_client(State, client_id, fault))

On_delete_client ==
    \E client_id \in TenantIds : Do(delete_client(State, client_id))

On_list_clients ==
    \E status \in {"", "has_db", "no_db", "all"}, fault \in {"none", "query"} :
        Do(list_clients(State, status, fault))

On_client_clients_page ==
    \E client_id \in TenantIds :
        \E result \in client_clients_page_requests(State, client_id) : Do(result)

On_create_client_for_tenant ==
    \E client_id \in TenantIds :
        \E result \in create_client_for_tenant_requests(State, client_id) : Do(result)

On_client_detail_page ==
    \E client_id \in TenantIds :
        \E result \in client_detail_page_requests(State, client_id) : Do(result)

On_add_client_signature ==
    \E client_id \in TenantIds :
        \E result \in add_client_signature_requests(State, client_id) : Do(result)

On_client_settings_page ==
    \E client_id \in TenantIds :
        \E result \in client_settings_page_requests(State, client_id) : Do(result)

On_settings_create_client_organization ==
    \E client_id \in TenantIds :
        \E result \in settings_create_client_organization_requests(State, client_id) : Do(result)

On_delete_client_organization ==
    \E client_id \in TenantIds :
        \E result \in delete_client_organization_requests(State, client_id) : Do(result)

On_client_reports_page ==
    \E client_id \in TenantIds :
        \E result \in client_reports_page_requests(State, client_id) : Do(result)

On_create_report ==
    \E client_id \in TenantIds :
        \E result \in create_report_requests(State, client_id) : Do(result)

On_assigned_reports_json ==
    \E client_id \in TenantIds :
        \E result \in assigned_reports_json_requests(State, client_id) : Do(result)

On_available_reports_json ==
    \E client_id \in TenantIds :
        \E result \in available_reports_json_requests(State, client_id) : Do(result)

On_assign_report ==
    \E client_id \in TenantIds :
        \E result \in assign_report_requests(State, client_id) : Do(result)

On_add_period ==
    \E client_id \in TenantIds :
        \E result \in add_period_requests(State, client_id) : Do(result)

On_update_period ==
    \E client_id \in TenantIds :
        \E result \in update_period_requests(State, client_id) : Do(result)

On_delete_report ==
    \E client_id \in TenantIds :
        \E result \in delete_report_requests(State, client_id) : Do(result)

On_delete_period ==
    \E client_id \in TenantIds :
        \E result \in delete_period_requests(State, client_id) : Do(result)

On_report_detail_page ==
    \E client_id \in TenantIds :
        \E result \in report_detail_page_requests(State, client_id) : Do(result)

On_add_report_period ==
    \E client_id \in TenantIds :
        \E result \in add_report_period_requests(State, client_id) : Do(result)

On_client_dashboard ==
    \E client_id \in TenantIds :
        \E result \in client_dashboard_requests(State, client_id) : Do(result)

On_expiring_signatures_page ==
    \E client_id \in TenantIds :
        \E result \in expiring_signatures_page_requests(State, client_id) : Do(result)

Init ==
    /\ client_organizations = [i \in {} |-> [database_name |-> NoDb]]
    /\ client_users = {}
    /\ next_org_id = 1
    /\ stores = [d \in {} |-> EmptyStore]
    /\ open_sessions = EmptyBag
    /\ transactions = EmptyBag

Admin ==
    \/ On_admin_create_client_organization
    \/ On_create_database_for_client
    \/ On_delete_client
    \/ On_list_clients

Tenant ==
    \/ On_client_clients_page
    \/ On_create_client_for_tenant
    \/ On_client_detail_page
    \/ On_add_client_signature
    \/ On_client_settings_page
    \/ On_settings_create_client_organization
    \/ On_delete_client_organization
    \/ On_client_reports_page
    \/ On_create_report
    \/ On_assigned_reports_json
    \/ On_available_reports_json
    \/ On_assign_report
    \/ On_add_period
    \/ On_update_period
    \/ On_delete_report
    \/ On_delete_period
    \/ On_report_detail_page
    \/ On_add_report_period
    \/ On_client_dashboard
    \/ On_expiring_signatures_page

Next == Admin \/ Tenant

\* the whole application, from an empty registry.  The properties below are
\* checked on its two halves: the registry handlers from the empty registry
\* (SpecRegistry) and the per-tenant handlers from a registry the registry
\* handlers leave (SpecTenant, SpecTenants).
Spec == Init /\ [][Next]_vars

\* the registry handlers, and the tenant handler that fills a store
NextRegistry == Admin \/ On_create_client_for_tenant

SpecRegistry == Init /\ [][NextRegistry]_vars

\* a registry the registry handlers leave: the tenants of provisioned registered
\* with a database that holds no rows yet, those of unprovisioned without one
Registered(provisioned, unprovisioned) ==
    /\ client_organizations =
          [i \in provisioned \cup unprovisioned |->
              [database_name |-> IF i \in provisioned THEN DbName(i) ELSE NoDb]]
    /\ client_users =
          {[client_organization_id |-> i] : i \in provisioned \cup unprovisioned}
    /\ next_org_id = SetMax(provisioned \cup unprovisioned) + 1
    /\ stores = [d \in {DbName(i) : i \in provisioned} |-> EmptyStore]
    /\ open_sessions = EmptyBag
    /\ transactions = EmptyBag

\* the per-tenant handlers of one tenant, next to a tenant without a database
InitTenant == Registered({1}, {2})

SpecTenant == InitTenant /\ [][Tenant]_vars

\* the per-tenant handlers of two tenants, next to a tenant without a database
InitTenants == Registered({1, 2}, {3})

SpecTenants == InitTenants /\ [][Tenant]_vars

----------------------------------------------------------------------------
(* Concurrent requests of one tenant.  Each request has its own session and
   transaction: its queries read the store as it is when they run, session.add
   and session.delete stage a row in the session, and session.commit() flushes
   the staged row and commits.  Nothing orders the requests, so the steps of two
   of them interleave. *)

\* the queries and checks of a request ran and its body ends as out: a body that
\* raises ends the request (finally: session.close()), otherwise the request
\* holds its session and the row it staged until it commits
Queried(op, client_id, out, row) ==
    IF out.raised # "none"
    THEN UNCHANGED vars
    ELSE /\ BagCardinality(transactions) < MaxRequests
         /\ open_sessions' =
               get_client_session(open_sessions, SessionDatabase(State, client_id))
         /\ transactions' = transactions (+) SetToBag(
               {[op |-> op, database |-> SessionDatabase(State, client_id), row |-> row]})
         /\ UNCHANGED <<client_organizations, client_users, next_org_id, stores>>

\* session.commit() left the store of the request as store; finally: session.close()
Committed(tx, store) ==
    /\ WithinBounds([stores EXCEPT ![tx.database] = store])
    /\ stores' = [stores EXCEPT ![tx.database] = store]
    /\ open_sessions' = session_close(open_sessions, tx.database)
    /\ transactions' = transactions (-) SetToBag({tx})
    /\ UNCHANGED <<client_organizations, client_users, next_org_id>>

\* assign_report up to session.add(link): inner_client, tpl and exists are read
On_assign_report_queries ==
    \E client_id \in TenantIds, template_id \in RowIds, fault \in ReadFaults :
        LET store == TenantStore(State, client_id) IN
        /\ HasClientOrg(State, client_id)
        /\ Queried("assign_report", client_id,
                   assign_report_body(store, template_id, fault),
                   [client_id   |-> First(InnerClient(store)).id,
                    template_id |-> template_id])

\* assign_report's session.commit(): the INSERT takes the next id of the table as
\* it is now; no unique constraint on (client_id, template_id) refuses it
On_assign_report_commit ==
    \E tx \in BagToSet(transactions), fault \in {"none", "commit"} :
        LET store == stores[tx.database] IN
        /\ tx.op = "assign_report"
        /\ Committed(tx, IF fault = "commit" THEN store
                         ELSE Insert(store, "client_reports",
                                     [id          |-> NextId(store.client_reports),
                                      client_id   |-> tx.row.client_id,
                                      template_id |-> tx.row.template_id]))

\* add_period up to session.add(new_period): inner_client and client_report are
\* read, the dates are parsed
On_add_period_queries ==
    \E client_id \in TenantIds, template_id \in RowIds, dates \in PeriodDates,
       fault \in ReadFaults :
        LET store == TenantStore(State, client_id) IN
        /\ HasClientOrg(State, client_id)
        /\ Queried("add_period", client_id,
                   add_period_body(store, template_id, dates[1], dates[2], fault),
                   [client_report_id |->
                        First(Links(store, First(InnerClient(store)).id, template_id)).id,
                    start_date       |-> fromisoformat(dates[1]),
                    end_date         |-> PeriodEnd(dates[2])])

\* add_period's session.commit().  When the ClientReport read earlier is gone, a
\* store that enforces the foreign key refuses the INSERT (IntegrityError) and a
\* store that does not (SQLite without the foreign_keys pragma) takes the row.
On_add_period_commit ==
    \E tx \in BagToSet(transactions), fault \in {"none", "commit"}, enforced \in BOOLEAN :
        LET store == stores[tx.database]
            refused == enforced /\ Find(store.client_reports, tx.row.client_report_id) = {}
        IN  /\ tx.op = "add_period"
            /\ Committed(tx, IF fault = "commit" \/ refused THEN store
                             ELSE Insert(store, "client_report_history",
                                         [id               |-> NextId(store.client_report_history),
                                          client_report_id |-> tx.row.client_report_id,
                                          start_date       |-> tx.row.start_date,
                                          end_date         |-> tx.row.end_date]))

\* delete_report up to session.delete(link): inner_client, has_periods and link
\* are read
On_delete_report_queries ==
    \E client_id \in TenantIds, template_id \in RowIds, fault \in ReadFaults :
        LET store == TenantStore(State, client_id) IN
        /\ HasClientOrg(State, client_id)
        /\ Queried("delete_report", client_id,
                   delete_report_body(store, template_id, fault),
                   First(Links(store, First(InnerClient(store)).id, template_id)))

\* delete_report's session.commit().  The flush loads link.history, the backref of
\* ClientReportHistory.client_report, which has no delete cascade: the history
\* rows it sees get client_report_id NULL (0 here) and the link is deleted.  Where
\* the transaction does not see them, a store that enforces the foreign key
\* refuses the DELETE and one that does not leaves them referring to the deleted
\* row.  A link that another request deleted meanwhile makes the flush fail.
On_delete_report_commit ==
    \E tx \in BagToSet(transactions), fault \in {"none", "commit"},
       flush \in {"nullified", "refused", "dangling"} :
        LET store == stores[tx.database]
            history == {h \in store.client_report_history : h.client_report_id = tx.row.id}
            deleted == Delete(store, "client_reports", tx.row)
        IN  /\ tx.op = "delete_report"
            /\ Committed(tx,
                   IF fault = "commit" \/ tx.row \notin store.client_reports THEN store
                   ELSE IF history = {} \/ flush = "dangling" THEN deleted
                   ELSE IF flush = "refused" THEN store
                   ELSE [deleted EXCEPT !.client_report_history =
                            (@ \ history) \cup {[h EXCEPT !.client_report_id = 0] : h \in history}])

Concurrent ==
    \/ On_assign_report_queries
    \/ On_assign_report_commit
    \/ On_add_period_queries
    \/ On_add_period_commit
    \/ On_delete_report_queries
    \/ On_delete_report_commit

\* tenant 1 after create_client_for_tenant and create_report: its store holds one
\* Client and one ReportTemplate
InitConcurrent ==
    /\ client_organizations =
          [i \in {1, 2} |-> [database_name |-> IF i = 1 THEN DbName(i) ELSE NoDb]]
    /\ client_users = {[client_organization_id |-> i] : i \in {1, 2}}
    /\ next_org_id = 3
    /\ stores = [d \in {DbName(1)} |->
                    create_report_body(
                        create_client_for_tenant_body(EmptyStore, "none").store,
                        "none").store]
    /\ open_sessions = EmptyBag
    /\ transactions = EmptyBag

SpecConcurrent == InitConcurrent /\ [][Concurrent]_vars

----------------------------------------------------------------------------
(* Properties of the registry handlers, checked on SpecRegistry *)

\* the outcome of registering with all required fields and create_database true
Registering(fault) == admin_create_client_organization(State, ValidData(TRUE), fault)

\* the rows of the owner users of a tenant
UsersOf(users, id) == {u \in users : u.client_organization_id = id}

\* C1: provisioning is idempotent.  For every registered tenant, two calls of
\* create_database_for_client in a row both succeed and name the same database,
\* the tenant's database_name after the second call is the one after the first,
\* and the store holds after the second call exactly the rows it held after the
\* first.
C1_ProvisionIdempotent ==
    \A t \in DOMAIN client_organizations :
        LET first == create_database_for_client(State, t, "none")
            second == create_database_for_client(first.state, t, "none")
            name == first.response.database_name
        IN  /\ first.response.status = 200
            /\ second.response.status = 200
            /\ second.response.database_name = name
            /\ second.state.client_organizations[t].database_name
                 = first.state.client_organizations[t].database_name
            /\ name \in DOMAIN first.state.stores
            /\ name \in DOMAIN second.state.stores
            /\ second.state.stores[name] = first.state.stores[name]

\* C1 happens: a tenant was provisioned, its store received a row, and provisioning
\* it again succeeds and keeps the row
C1_Witness ==
    \E t \in DOMAIN client_organizations :
        LET name == client_organizations[t].database_name
            again == create_database_for_client(State, t, "none")
        IN  /\ name # NoDb
            /\ name \in DOMAIN stores
            /\ stores[name].clients # {}
            /\ again.response.status = 200
            /\ again.state.stores[name].clients = stores[name].clients

\* C8: registration with all required fields and create_database true, when no step
\* fails, answers 201; the registry then holds a new tenant and an owner user linked
\* to it, the tenant's database_name is the identifier of a database that exists,
\* and the response carries that same database_name.
C8_RegistrationSucceeds ==
    LET id == next_org_id
        r == Registering("none")
    IN  /\ r.response.status = 201
        /\ id \notin DOMAIN client_organizations
        /\ id \in DOMAIN r.state.client_organizations
        /\ UsersOf(r.state.client_users, id) # {}
        /\ r.state.client_organizations[id].database_name # NoDb
        /\ r.state.client_organizations[id].database_name \in DOMAIN r.state.stores
        /\ r.response.database_name = r.state.client_organizations[id].database_name

\* C8 happens: a registered tenant with its owner user and its database
C8_Witness ==
    \E t \in DOMAIN client_organizations :
        /\ next_org_id > t
        /\ UsersOf(client_users, t) # {}
        /\ client_organizations[t].database_name = DbName(t)
        /\ DbName(t) \in DOMAIN stores

\* C9: a failure in any step of the registration (creating the tenant, creating the
\* owner user, provisioning the database) answers 5xx and leaves the registry with
\* neither the new tenant nor its owner user.
C9_RegistrationFailureLeavesNothing ==
    \A fault \in RegistrationFaults(ValidData(TRUE)) \ {"none"} :
        LET id == next_org_id
            r == Registering(fault)
        IN  /\ r.response.status >= 500
            /\ id \notin DOMAIN r.state.client_organizations
            /\ UsersOf(r.state.client_users, id) = {}

----------------------------------------------------------------------------
(* Properties of the per-tenant handlers, checked on SpecTenant and SpecTenants *)

\* the tenant is registered and has a database
Provisioned(client_id) ==
    /\ client_id \in DOMAIN client_organizations
    /\ client_organizations[client_id].database_name # NoDb

\* the store of a provisioned tenant
StoreOf(client_id) == stores[client_organizations[client_id].database_name]

\* C2: rollback.  Whenever a per-tenant write handler ends in an error raised before
\* or during its commit (a business error, a failing statement, a failing commit),
\* the stores after the request are the stores before it.
C2_Rollback ==
    \A client_id \in TenantIds :
        \A r \in WriteRequests(State, client_id) :
            (r.response.status >= 400 /\ r.response.fault # "refresh")
                => r.state.stores = stores

\* C2 happens: a tenant holds a period of an assigned report, and deleting the
\* period, updating it and adding a signature each fail at the commit with 500
C2_Witness ==
    /\ Provisioned(1)
    /\ StoreOf(1).client_report_history # {}
    /\ \A op \in {"delete_period", "update_period", "add_client_signature"} :
          \E r \in WriteRequests(State, 1) :
              /\ r.response.op = op
              /\ r.response.fault = "commit"
              /\ r.response.status = 500
              /\ r.state.stores = stores

\* the first Client row of a tenant's store and its links to a template
LinksOf(client_id, template_id) ==
    IF StoreOf(client_id).clients = {} THEN {}
    ELSE Links(StoreOf(client_id), First(StoreOf(client_id).clients).id, template_id)

\* the history rows of a set of links
PeriodsOf(client_id, links) ==
    {h \in StoreOf(client_id).client_report_history :
        \E l \in links : h.client_report_id = l.id}

\* C3: delete_report on an existing link.  Without history rows the request succeeds
\* and the link is gone; with history rows it fails with the 4xx error "cannot
\* delete the report: it has periods" and the link and its history rows remain.
C3_DeleteReport ==
    \A client_id \in TenantIds : \A template_id \in RowIds :
        (Provisioned(client_id) /\ LinksOf(client_id, template_id) # {}) =>
            LET r == delete_report(State, client_id, template_id, "none")
                db == client_organizations[client_id].database_name
                links == LinksOf(client_id, template_id)
            IN  IF PeriodsOf(client_id, links) = {}
                THEN /\ r.response.status = 200
                     /\ r.state.stores[db].client_reports
                          = StoreOf(client_id).client_reports \ links
                ELSE /\ r.response.status \in 400..499
                     /\ r.response.detail = "cannot delete the report: it has periods"
                     /\ links \subseteq r.state.stores[db].client_reports
                     /\ PeriodsOf(client_id, links)
                          \subseteq r.state.stores[db].client_report_history
                     /\ r.state.stores = stores

\* C3 happens: tenant 1 holds a link with a history row, deleting the link is
\* refused, and once the history row is deleted the link can be deleted
C3_Witness ==
    /\ Provisioned(1)
    /\ \E template_id \in RowIds : \E h \in PeriodsOf(1, LinksOf(1, template_id)) :
          LET emptied == delete_period(State, 1, h.id, "none")
              removed == delete_report(emptied.state, 1, template_id, "none")
          IN  /\ delete_report(State, 1, template_id, "none").response.status = 400
              /\ emptied.response.status = 200
              /\ removed.response.status = 200
              /\ removed.state.stores[DbName(1)].client_reports = {}

\* C4: assign_report for a template already assigned to the tenant's client answers
\* the 4xx error "report already added" and creates no row; every store holds at
\* most one ClientReport row for a client and a template.
C4_AssignOnce ==
    /\ \A d \in DOMAIN stores : \A l1 \in stores[d].client_reports :
          \A l2 \in stores[d].client_reports :
              (l1.client_id = l2.client_id /\ l1.template_id = l2.template_id) => l1 = l2
    /\ \A client_id \in TenantIds : \A template_id \in RowIds :
          (Provisioned(client_id) /\ LinksOf(client_id, template_id) # {}) =>
              LET r == assign_report(State, client_id, template_id, "none")
              IN  /\ r.response.status \in 400..499
                  /\ r.response.detail = "report already added"
                  /\ r.state.stores = stores

\* C4 happens: a template is assigned, and assigning it again is refused
C4_Witness ==
    /\ Provisioned(1)
    /\ \E template_id \in RowIds :
          /\ LinksOf(1, template_id) # {}
          /\ assign_report(State, 1, template_id, "none").response.status = 400

\* C5: every per-tenant handler called with a tenant id that is not in the registry,
\* or whose tenant has no database_name, answers 404 without opening a tenant
\* session and leaves the registry and the stores as they were.
C5_NotFoundBeforeSession ==
    \A client_id \in TenantIds :
        ~Provisioned(client_id) =>
            \A r \in Requests(State, client_id) :
                /\ r.response.status = 404
                /\ r.response.session = NoDb
                /\ r.state = State

\* C5 happens: next to a tenant whose store holds rows there are a tenant without a
\* database and an id that is not registered, and requests to both answer 404
C5_Witness ==
    /\ \E t \in TenantIds : Provisioned(t) /\ StoreOf(t).clients # {}
    /\ \E t \in DOMAIN client_organizations :
          /\ client_organizations[t].database_name = NoDb
          /\ \E r \in Requests(State, t) : r.response.status = 404
    /\ \E t \in TenantIds \ DOMAIN client_organizations :
          \E r \in Requests(State, t) : r.response.status = 404

\* C6: session release.  No tenant session is open between requests, and every
\* request, however it ends, leaves no tenant session open.
C6_SessionsReleased ==
    /\ open_sessions = EmptyBag
    /\ \A client_id \in TenantIds :
          \A r \in Requests(State, client_id) : r.state.open_sessions = EmptyBag

\* C6 happens: requests of tenant 1 open a session and end by returning, by an
\* HTTPException of the handler and by an unexpected exception
C6_Witness ==
    /\ Provisioned(1)
    /\ StoreOf(1).clients # {}
    /\ open_sessions = EmptyBag
    /\ \A status \in {200, 404, 500} :
          \E r \in Requests(State, 1) :
              /\ r.response.session = DbName(1)
              /\ r.response.status = status

\* C7: tenant isolation.  A per-tenant handler called with tenant id A opens a
\* session on A's database only, and the store of every other tenant is after the
\* request what it was before, whatever the handler and the outcome.
C7_Isolation ==
    \A client_id \in TenantIds :
        \A r \in Requests(State, client_id) :
            /\ r.response.session # NoDb =>
                  /\ Provisioned(client_id)
                  /\ r.response.session = client_organizations[client_id].database_name
            /\ DOMAIN r.state.stores = DOMAIN stores
            /\ \A d \in DOMAIN stores :
                  (~Provisioned(client_id)
                     \/ d # client_organizations[client_id].database_name)
                      => r.state.stores[d] = stores[d]

\* C7 happens: two tenants hold rows, and a request of each changes its own store
C7_Witness ==
    /\ Provisioned(1) /\ StoreOf(1).clients # {}
    /\ Provisioned(2) /\ StoreOf(2).clients # {}
    /\ \A t \in {1, 2} :
          \E r \in Requests(State, t) :
              /\ r.response.session = DbName(t)
              /\ r.state.stores[DbName(t)] # stores[DbName(t)]

\* C10: add_client_signature for a provisioned tenant and a client_inner_id that
\* matches no Client row answers NotFound with a 4xx status and creates no
\* DigitalSignature row.
C10_SignatureOfUnknownClient ==
    \A client_id \in TenantIds : \A client_inner_id \in RowIds :
        (Provisioned(client_id)
           /\ Find(StoreOf(client_id).clients, client_inner_id) = {}) =>
            \A dates \in SignatureDates :
                LET r == add_client_signature(State, client_id, client_inner_id,
                                              dates[1], dates[2], "none")
                IN  /\ r.response.status \in 400..499
                    /\ r.state.stores = stores

\* C11: add_report_period with a report_id that matches no ReportTemplate of the
\* tenant's store answers NotFound with a 4xx status and creates no ReportPeriod
\* row.
C11_PeriodOfUnknownReport ==
    \A client_id \in TenantIds : \A report_id \in RowIds :
        (Provisioned(client_id)
           /\ Find(StoreOf(client_id).report_templates, report_id) = {}) =>
            \A due_date \in DueDates :
                LET r == add_report_period(State, client_id, report_id, due_date, "none")
                IN  /\ r.response.status \in 400..499
                    /\ r.state.stores = stores

\* C12: add_report_period for an existing ReportTemplate with a due_date that
\* cannot be parsed answers a Validation error with a 4xx status and creates no
\* ReportPeriod row.
C12_PeriodWithBadDueDate ==
    \A client_id \in TenantIds : \A report_id \in RowIds :
        (Provisioned(client_id)
           /\ Find(StoreOf(client_id).report_templates, report_id) # {}) =>
            LET r == add_report_period(State, client_id, report_id, DottedDate, "none")
            IN  /\ r.response.status \in 400..499
                /\ r.state.stores = stores

----------------------------------------------------------------------------
(* Properties of the date handling *)

\* the date strings tried, each with the Date it denotes as YYYY-MM-DD (NoDate when
\* it is not of that shape) and the DateTime it denotes in one of the four formats
\* of _parse_date (NoDate when it is in none)
DateSamples ==
    {[text |-> IsoDate,     iso |-> <<2024, 3, 1>>, parsed |-> <<2024, 3, 1, 0, 0>>],
     [text |-> DottedMarch, iso |-> NoDate,         parsed |-> <<2024, 3, 1, 0, 0>>],
     [text |-> DottedDate,  iso |-> NoDate,         parsed |-> <<2024, 12, 31, 0, 0>>],
     [text |-> MinuteT,     iso |-> NoDate,         parsed |-> <<2024, 3, 1, 10, 0>>],
     [text |-> MinuteSpace, iso |-> NoDate,         parsed |-> <<2024, 3, 1, 10, 0>>],
     [text |-> SlashDate,   iso |-> NoDate,         parsed |-> NoDate]}

\* an end_date that was not given
AbsentSamples ==
    {[text |-> None, iso |-> NoDate, parsed |-> NoDate],
     [text |-> <<>>, iso |-> NoDate, parsed |-> NoDate]}

\* the Date column of a DateTime
DatePart(parsed) == IF parsed = NoDate THEN NoDate ELSE SubSeq(parsed, 1, 3)

\* the history rows a request added or rewrote
NewPeriods(r, client_id) ==
    r.state.stores[client_organizations[client_id].database_name].client_report_history
        \ StoreOf(client_id).client_report_history

\* add_period and update_period, called where they reach the parsing of the dates
PeriodCalls(start_date, end_date) ==
    {[r |-> add_period(State, client_id, template_id, start_date, end_date, "none"),
      client_id |-> client_id, old |-> {}] :
        client_id \in {t \in TenantIds : Provisioned(t)},
        template_id \in {t \in RowIds : \E c \in TenantIds :
                            Provisioned(c) /\ LinksOf(c, t) # {}}}
    \cup
    {[r |-> update_period(State, client_id, h.id, start_date, end_date, "none"),
      client_id |-> client_id, old |-> {h}] :
        client_id \in {t \in TenantIds : Provisioned(t)},
        h \in UNION {StoreOf(t).client_report_history :
                        t \in {c \in TenantIds : Provisioned(c)}}}

\* the calls of PeriodCalls that got as far as the dates
ReachedDates(call) ==
    call.r.response.detail \in {"period added", "period updated", "bad date format"}

ParseSamples ==
    DateSamples \cup AbsentSamples
    \cup {[text |-> PaddedIso, iso |-> NoDate, parsed |-> <<2024, 3, 1, 0, 0>>],
          [text |-> <<" ">>,   iso |-> NoDate, parsed |-> NoDate]}

\* the signature rows a request added
NewSignatures(r, client_id) ==
    r.state.stores[client_organizations[client_id].database_name].digital_signatures
        \ StoreOf(client_id).digital_signatures

\* C14: _parse_date returns the date-time of an input in one of the four formats
\* (surrounding whitespace stripped) and None for an empty or missing input and
\* for an input in none of the formats; it never raises: add_client_signature
\* stores the signature with these values.
C14_ParseDate ==
    \A s \in ParseSamples :
        /\ _parse_date(s.text) = s.parsed
        /\ \A client_id \in TenantIds :
              Provisioned(client_id) =>
                  \A c \in StoreOf(client_id).clients :
                      LET r == add_client_signature(State, client_id, c.id,
                                                    s.text, s.text, "none")
                      IN  /\ r.response.status = 303
                          /\ \E row \in NewSignatures(r, client_id) :
                                row.start_date = s.parsed /\ row.end_date = s.parsed

\* C14 happens: the store of tenant 1 holds a signature whose dates were given as
\* YYYY-MM-DD and DD.MM.YYYY, and one whose start date was in no format
C14_Witness ==
    /\ Provisioned(1)
    /\ \E row \in StoreOf(1).digital_signatures :
          row.start_date = <<2024, 3, 1, 0, 0>> /\ row.end_date = <<2024, 12, 31, 0, 0>>
    /\ \E row \in StoreOf(1).digital_signatures :
          row.start_date = NoDate /\ row.end_date = <<2024, 3, 1, 0, 0>>

\* date strings in none of the formats of _parse_date: MM/DD/YYYY, a day the month
\* does not have, words
UnmatchedDates ==
    {SlashDate,
     <<"2", "0", "2", "4", "-", "0", "2", "-", "3", "0">>,
     <<"s", "o", "o", "n">>}

\* C29: add_client_signature for an existing inner client, with a start_date or an
\* end_date that matches none of the formats, succeeds: it is not refused with a
\* validation error, exactly one DigitalSignature row is added, for that client,
\* with the unmatched date absent and the other date as given.
C29_UnmatchedSignatureDate ==
    \A client_id \in TenantIds :
        Provisioned(client_id) =>
            \A c \in StoreOf(client_id).clients :
            \A bad \in UnmatchedDates :
            \A dates \in {<<bad, bad>>, <<bad, IsoDate>>, <<IsoDate, bad>>, <<bad, None>>} :
                LET r == add_client_signature(State, client_id, c.id,
                                              dates[1], dates[2], "none")
                    parsed(d) == IF d = IsoDate THEN <<2024, 3, 1, 0, 0>> ELSE NoDate
                IN  /\ r.response.status = 303
                    /\ StoreOf(client_id).digital_signatures
                         \subseteq r.state.stores[SessionDatabase(State, client_id)]
                                     .digital_signatures
                    /\ Cardinality(NewSignatures(r, client_id)) = 1
                    /\ \A row \in NewSignatures(r, client_id) :
                          /\ row.client_id = c.id
                          /\ row.start_date = parsed(dates[1])
                          /\ row.end_date = parsed(dates[2])

\* C29 happens: the store of tenant 1 holds a signature whose start_date was given
\* as MM/DD/YYYY and is absent, and adding another one with unmatched dates succeeds
C29_Witness ==
    /\ Provisioned(1)
    /\ \E row \in StoreOf(1).digital_signatures :
          /\ row.start_date = NoDate
          /\ row.end_date # NoDate
          /\ add_client_signature(State, 1, row.client_id, SlashDate, SlashDate, "none")
                .response.status = 303

\* minutes-resolution rank of a DateTime, monotone in the date and time
Stamp(dt) == (((dt[1] * 12 + dt[2]) * 31 + dt[3]) * 24 + dt[4]) * 60 + dt[5]

\* C15: client_detail_page lists exactly the DigitalSignature rows of the requested
\* inner client, every signature with an end_date before every signature without
\* one, those with an end_date in descending end_date order, whatever signatures
\* were added.
C15_SignatureListing ==
    \A client_id \in TenantIds :
        Provisioned(client_id) =>
            \A c \in StoreOf(client_id).clients :
                /\ client_detail_page(State, client_id, c.id, "none").response.status = 200
                /\ client_detail_signatures(StoreOf(client_id), c.id) # {}
                /\ \A list \in client_detail_signatures(StoreOf(client_id), c.id) :
                      /\ {list[i] : i \in DOMAIN list}
                           = {s \in StoreOf(client_id).digital_signatures : s.client_id = c.id}
                      /\ Len(list) = Cardinality({list[i] : i \in DOMAIN list})
                      /\ \A i \in DOMAIN list : \A j \in DOMAIN list :
                            i < j =>
                                /\ list[i].end_date = NoDate => list[j].end_date = NoDate
                                /\ (list[i].end_date # NoDate /\ list[j].end_date # NoDate)
                                      => Stamp(list[i].end_date) >= Stamp(list[j].end_date)

\* C15 happens: a client of tenant 1 has a signature without an end_date, added
\* first, and one with an end_date, and the page lists the latter first
C15_Witness ==
    /\ Provisioned(1)
    /\ \E c \in StoreOf(1).clients :
          \E list \in client_detail_signatures(StoreOf(1), c.id) :
              /\ Len(list) >= 2
              /\ list[1].end_date # NoDate
              /\ list[Len(list)].end_date = NoDate
              /\ list[1].id > list[Len(list)].id

----------------------------------------------------------------------------
(* More properties of the registry handlers, checked on SpecRegistry *)

\* the requests to the registry that name a tenant id
RegistryRequests(S, client_id) ==
    {create_database_for_client(S, client_id, fault) : fault \in ProvisionFaults}
    \cup {delete_client(S, client_id)}

\* C16: create-database and delete for a tenant id that does not exist answer 404
\* and leave the registry unchanged: no tenant record and no database is created.
C16_UnknownTenant ==
    \A client_id \in TenantIds \ DOMAIN client_organizations :
        \A r \in RegistryRequests(State, client_id) :
            /\ r.response.status = 404
            /\ r.state = State

\* C16 happens: the registry holds a tenant, another id was registered and
\* deleted, and the requests for that id answer 404
C16_Witness ==
    /\ DOMAIN client_organizations # {}
    /\ \E client_id \in 1..(next_org_id - 1) :
          /\ client_id \notin DOMAIN client_organizations
          /\ \A r \in RegistryRequests(State, client_id) : r.response.status = 404

\* a tenant id that was registered and is not in the registry any more
Deleted(client_id) ==
    client_id < next_org_id /\ client_id \notin DOMAIN client_organizations

\* C17: deleting a tenant removes its record and every registry user linked to it
\* and leaves the records and users of the other tenants as they were; from then
\* on the id stays out of the registry, and every per-tenant request and every
\* create-database or delete request for it answers 404.
C17_DeleteTenant ==
    /\ [](\A client_id \in DOMAIN client_organizations :
             LET r == delete_client(State, client_id)
             IN  /\ r.response.status = 200
                 /\ DOMAIN r.state.client_organizations
                      = DOMAIN client_organizations \ {client_id}
                 /\ \A other \in DOMAIN r.state.client_organizations :
                       r.state.client_organizations[other] = client_organizations[other]
                 /\ r.state.client_users = client_users \ UsersOf(client_users, client_id)
                 /\ r.state.next_org_id = next_org_id)
    /\ [](\A client_id \in TenantIds :
             Deleted(client_id) =>
                 \A r \in Requests(State, client_id) \cup RegistryRequests(State, client_id) :
                     r.response.status = 404)
    /\ [][\A client_id \in TenantIds : Deleted(client_id) => Deleted(client_id)']_vars

\* C17 happens: a tenant that had a database and a store with rows was deleted,
\* its users are gone, and another tenant is still registered with its user
C17_Witness ==
    \E client_id \in TenantIds :
        /\ Deleted(client_id)
        /\ UsersOf(client_users, client_id) = {}
        /\ DbName(client_id) \in DOMAIN stores
        /\ stores[DbName(client_id)].clients # {}
        /\ \E other \in DOMAIN client_organizations : UsersOf(client_users, other) # {}

\* the rows of the list answered for a status filter
Listed(status) == list_clients(State, status, "none").response.detail
RowsOf(list) == {list[i] : i \in DOMAIN list}

\* C18: a tenant without a database is listed: the list without a status filter
\* holds every registered tenant once, a tenant without a database shown as not
\* created, and the lists for has_db and no_db are disjoint and together hold
\* exactly the rows of the unfiltered list.
C18_ListClients ==
    /\ list_clients(State, "", "none").response.status = 200
    /\ Len(Listed("")) = Cardinality(DOMAIN client_organizations)
    /\ {row.id : row \in RowsOf(Listed(""))} = DOMAIN client_organizations
    /\ \A row \in RowsOf(Listed("")) :
          row.database_name =
              IF client_organizations[row.id].database_name = NoDb
              THEN <<"not created">>
              ELSE client_organizations[row.id].database_name
    /\ RowsOf(Listed("has_db")) \cap RowsOf(Listed("no_db")) = {}
    /\ RowsOf(Listed("has_db")) \cup RowsOf(Listed("no_db")) = RowsOf(Listed(""))

\* C18 happens: the registry holds a tenant with a database and one without, and
\* each of the two filtered lists holds one of them
C18_Witness ==
    /\ \E id \in DOMAIN client_organizations : client_organizations[id].database_name = NoDb
    /\ \E id \in DOMAIN client_organizations : client_organizations[id].database_name # NoDb
    /\ Len(Listed("has_db")) = 1
    /\ Len(Listed("no_db")) = 1
    /\ Len(Listed("")) = 2

\* C23: when create_client_database raises inside create_database_for_client, the
\* request is answered with a 5xx error and the tenant's database_name keeps the
\* value it had; a tenant without a database stays without one, no database
\* appears, and every per-tenant request for it still answers 404.
C23_ProvisionFails ==
    \A client_id \in DOMAIN client_organizations :
        LET r == create_database_for_client(State, client_id, "provision")
        IN  /\ r.response.status >= 500
            /\ r.state.client_organizations[client_id].database_name
                 = client_organizations[client_id].database_name
            /\ client_organizations[client_id].database_name = NoDb =>
                 /\ r.state.stores = stores
                 /\ \A q \in Requests(r.state, client_id) : q.response.status = 404

\* C23 happens: a tenant without a database next to one with a database; the
\* provisioning that fails answers 500 for both, the one that works gives the first
\* its database
C23_Witness ==
    /\ \E client_id \in DOMAIN client_organizations :
          /\ client_organizations[client_id].database_name = NoDb
          /\ create_database_for_client(State, client_id, "provision").response.status = 500
          /\ create_database_for_client(State, client_id, "none")
                .state.client_organizations[client_id].database_name = DbName(client_id)
    /\ \E client_id \in DOMAIN client_organizations :
          /\ client_organizations[client_id].database_name # NoDb
          /\ create_database_for_client(State, client_id, "provision").response.status = 500

\* C28: in every reachable state no two distinct tenants of the registry have the
\* same non-empty database_name: a tenant's database_name is empty until
\* provisioning sets it, to client_<tenant id>, and provisioning again keeps it.
C28_DistinctDatabases ==
    /\ [](\A a, b \in DOMAIN client_organizations :
             /\ client_organizations[a].database_name # NoDb
             /\ client_organizations[a].database_name = client_organizations[b].database_name
             => a = b)
    /\ [](\A a \in DOMAIN client_organizations :
             client_organizations[a].database_name \in {NoDb, <<"client", a>>})
    /\ [][\A a \in DOMAIN client_organizations :
             /\ a \in DOMAIN client_organizations'
             /\ client_organizations[a].database_name # NoDb
             => client_organizations'[a].database_name = client_organizations[a].database_name]_vars

\* C28 happens: two tenants are provisioned, under two names, and provisioning one
\* of them again answers with the name it has
C28_Witness ==
    \E a, b \in DOMAIN client_organizations :
        /\ a # b
        /\ client_organizations[a].database_name # NoDb
        /\ client_organizations[b].database_name # NoDb
        /\ client_organizations[a].database_name # client_organizations[b].database_name
        /\ create_database_for_client(State, a, "none").response.database_name
             = client_organizations[a].database_name

----------------------------------------------------------------------------
(* The dashboard, checked on SpecTenant *)

\* C19: when the query of any of the four dashboard aggregates fails, the page is
\* still answered with 200, with empty lists and zero counts for all four
\* aggregates, the tenant's session is closed and the store is as it was.
C19_DashboardDegrades ==
    \A client_id \in TenantIds :
        HasClientOrg(State, client_id) =>
            \A fault \in {"reports", "calendar", "clients", "signatures"} :
                LET r == client_dashboard(State, client_id, fault)
                IN  /\ r.response.status = 200
                    /\ r.response.session = SessionDatabase(State, client_id)
                    /\ r.state.open_sessions = EmptyBag
                    /\ r.state.stores = stores
                    /\ \A threshold_end \in {<<2024, 2, 10, 23, 59>>, <<2024, 4, 10, 23, 59>>} :
                          dashboard_data(TenantStore(State, client_id), threshold_end, fault)
                              = [reports |-> <<>>, calendar |-> <<>>,
                                 clients_count |-> 0, expiring_signatures_count |-> 0]

\* C19 happens: the store of tenant 1 has clients and a signature that expires
\* before the threshold, so the dashboard counts both, and the request where the
\* signature query fails is answered with 200 and zero counts
C19_Witness ==
    /\ Provisioned(1)
    /\ dashboard_data(StoreOf(1), <<2024, 4, 10, 23, 59>>, "none").clients_count > 0
    /\ dashboard_data(StoreOf(1), <<2024, 4, 10, 23, 59>>, "none").expiring_signatures_count > 0
    /\ dashboard_data(StoreOf(1), <<2024, 2, 10, 23, 59>>, "none").expiring_signatures_count = 0
    /\ dashboard_data(StoreOf(1), <<2024, 4, 10, 23, 59>>, "signatures").clients_count = 0
    /\ client_dashboard(State, 1, "signatures").response.status = 200

----------------------------------------------------------------------------
(* Registration payloads, checked on SpecRegistry *)

\* a field that is missing, empty or made of whitespace only
Blank(value) == value = None \/ \A i \in DOMAIN value : value[i] \in Whitespace

\* the payloads with a required field missing or blank
BlankData ==
    {data \in RegistrationData :
        \E k \in 1..Len(RequiredFields) : Blank(data[RequiredFields[k]])}

\* C20: a registration whose email, phone, contact_person, login or password is
\* missing or blank after trimming is answered with 400 before anything is
\* written: no tenant record, no owner user and no database is created.
C20_BlankRegistration ==
    \A data \in BlankData : \A fault \in RegistrationFaults(data) :
        LET r == admin_create_client_organization(State, data, fault)
        IN  /\ r.response.status = 400
            /\ r.state = State

\* C20 happens: a tenant is registered, and both a payload without a password and
\* one whose login is a space are answered with 400 while the full payload is
\* accepted
C20_Witness ==
    /\ DOMAIN client_organizations # {}
    /\ next_org_id <= MaxTenants
    /\ [ValidData(TRUE) EXCEPT !.password = None] \in BlankData
    /\ [ValidData(TRUE) EXCEPT !.login = <<" ">>] \in BlankData
    /\ admin_create_client_organization(
           State, [ValidData(TRUE) EXCEPT !.login = <<" ">>], "none").response.status = 400
    /\ admin_create_client_organization(State, ValidData(TRUE), "none").response.status = 201

----------------------------------------------------------------------------
(* Periods of an assigned report, checked on SpecTenant *)

OfAnotherClient(client_id) ==
    [State EXCEPT !.stores[SessionDatabase(State, client_id)].client_reports =
        {[l EXCEPT !.client_id = @ + 1] : l \in @}]

\* update_period and delete_period of a tenant for one history id, no step failing
PeriodChanges(S, client_id, history_id) ==
    {update_period(S, client_id, history_id, IsoDate, None, "none"),
     update_period(S, client_id, history_id, IsoDate, IsoDate, "none"),
     delete_period(S, client_id, history_id, "none")}

\* C25: update_period and delete_period act only on a history row of a
\* ClientReport of the tenant's inner client.  For a history_id that does not
\* exist, or whose ClientReport belongs to another client, they answer 404 and
\* change nothing.  On success delete_period removes exactly that history row and
\* update_period changes only the start_date and end_date of that row; every
\* other row of the store, and every other store, stays as it was.
C25_PeriodFrame ==
    \A client_id \in TenantIds :
        Provisioned(client_id) /\ StoreOf(client_id).clients # {} =>
            LET db == SessionDatabase(State, client_id)
                history == StoreOf(client_id).client_report_history
            IN  \A history_id \in RowIds :
                /\ \A r \in PeriodChanges(OfAnotherClient(client_id), client_id, history_id) :
                      r.response.status = 404 /\ r.state = OfAnotherClient(client_id)
                /\ Find(history, history_id) = {} =>
                      \A r \in PeriodChanges(State, client_id, history_id) :
                          r.response.status = 404 /\ r.state = State
                /\ \A h \in Find(history, history_id) :
                      /\ LET r == delete_period(State, client_id, history_id, "none")
                         IN  /\ r.response.status = 200
                             /\ r.state = [State EXCEPT
                                   !.stores[db].client_report_history = @ \ {h}]
                      /\ LET r == update_period(State, client_id, history_id,
                                                IsoDate, None, "none")
                         IN  /\ r.response.status = 200
                             /\ r.state = [State EXCEPT
                                   !.stores[db].client_report_history =
                                       (@ \ {h}) \cup {[h EXCEPT !.start_date = <<2024, 3, 1>>,
                                                                 !.end_date = NoDate]}]

\* C25 happens: tenant 1 has a history row with an end_date under a ClientReport of
\* its inner client: deleting and updating it succeed, the same requests answer
\* 404 for an id without a row and when the ClientReport belongs to another client
C25_Witness ==
    /\ Provisioned(1)
    /\ \E h \in StoreOf(1).client_report_history :
          /\ h.end_date # NoDate
          /\ \A r \in PeriodChanges(State, 1, h.id) : r.response.status = 200
          /\ \A r \in PeriodChanges(OfAnotherClient(1), 1, h.id) : r.response.status = 404
          /\ \E history_id \in RowIds :
                \A r \in PeriodChanges(State, 1, history_id) : r.response.status = 404

\* the ClientReport rows of the inner client of a tenant for a template, in state S
LinksIn(S, client_id, template_id) ==
    LET store == TenantStore(S, client_id)
    IN  Links(store, First(store.clients).id, template_id)

\* from state S, where history_ids are the history rows of the assignment of
\* template_id: delete_report is refused as long as one of them is left, whatever
\* the order delete_period removes them in; once none is left delete_report
\* succeeds and removes the ClientReport, and assign_report then assigns the
\* template again
RECURSIVE Recovers(_, _, _, _)
Recovers(S, client_id, template_id, history_ids) ==
    LET deleted == delete_report(S, client_id, template_id, "none")
        assigned == assign_report(deleted.state, client_id, template_id, "none")
    IN  IF history_ids = {}
        THEN /\ deleted.response.status = 200
             /\ LinksIn(deleted.state, client_id, template_id) = {}
             /\ assigned.response.status = 200
             /\ Cardinality(LinksIn(assigned.state, client_id, template_id)) = 1
        ELSE /\ deleted.response.status = 400
             /\ deleted.state = S
             /\ \A history_id \in history_ids :
                   LET period == delete_period(S, client_id, history_id, "none")
                   IN  /\ period.response.status = 200
                       /\ Recovers(period.state, client_id, template_id,
                                   history_ids \ {history_id})

\* the assignments of a tenant that have history rows
Protected(client_id) ==
    IF ~Provisioned(client_id) THEN {}
    ELSE {l \in StoreOf(client_id).client_reports :
            \E h \in StoreOf(client_id).client_report_history : h.client_report_id = l.id}

C27_ListingsPartition ==
    \A client_id \in TenantIds :
        Provisioned(client_id) /\ StoreOf(client_id).clients # {} =>
            LET assigned == assigned_reports(StoreOf(client_id))
                available == available_reports(StoreOf(client_id))
            IN  /\ assigned_reports_json(State, client_id, "none").response.status = 200
                /\ available_reports_json(State, client_id, "none").response.status = 200
                /\ {r.template_id : r \in assigned} \cap {r.template_id : r \in available} = {}
                /\ {r.template_id : r \in assigned} \cup {r.template_id : r \in available}
                     = {t.id : t \in StoreOf(client_id).report_templates}
                /\ \A a, b \in assigned : a.template_id = b.template_id => a = b

\* C27 happens: tenant 1 has two templates, one assigned and listed as assigned,
\* the other listed as available
C27_Witness ==
    /\ Provisioned(1)
    /\ Cardinality(StoreOf(1).report_templates) = 2
    /\ Cardinality(assigned_reports(StoreOf(1))) = 1
    /\ Cardinality(available_reports(StoreOf(1))) = 1

----------------------------------------------------------------------------
(* Concurrent requests, checked on SpecConcurrent *)

\* C21: in every reachable state, the states reached by interleaving the steps of
\* concurrent assign_report requests included, a store holds at most one
\* ClientReport row per pair of client and template.
C21_OneLinkPerPair ==
    \A d \in DOMAIN stores :
        \A a, b \in stores[d].client_reports :
            a.client_id = b.client_id /\ a.template_id = b.template_id => a = b

\* C22: in every reachable state, the states reached by interleaving delete_report
\* with a concurrent add_period included, every ClientReportHistory row refers to
\* a ClientReport row of the same store.
C22_HistoryHasReport ==
    \A d \in DOMAIN stores :
        \A h \in stores[d].client_report_history :
            \E l \in stores[d].client_reports : l.id = h.client_report_id

====
